---------------------------- MODULE Spec2Model ----------------------------
(***************************************************************************)
(* HitaKort: hits on an N x N labelled grid, persisted as a JSON object.   *)
(*                                                                         *)
(* A string is a sequence of one-character strings, so that the regular    *)
(* expression, upper-casing and the decimal conversions act on characters. *)
(* A Python dict is a sequence of <<key, value>> pairs with distinct keys, *)
(* in insertion order.                                                     *)
(***************************************************************************)
EXTENDS Integers, Sequences, FiniteSets, Bags, TLC

VARIABLES
    files,      \* path -> Absent or the text of the backing file
    stores,     \* handle -> NoStore or the HitaKort object bound to it
    last,       \* the last call made and how it ended (return or raise)
    hist,       \* handle -> what happened to the object since construction
    pc,         \* position of the function call under test (pure-function runs)
    arg,        \* its argument
    loc,        \* its local variables
    ret         \* its return value or the error it raised

vars == <<files, stores, last, hist, pc, arg, loc, ret>>

storeVars == <<files, stores, last, hist>>
callVars == <<pc, arg, loc, ret>>

-----------------------------------------------------------------------------
(* Bounds *)

MaxIndex == 705         \* column indices 0..MaxIndex in the codec runs
MaxPointLen == 3        \* raw points of up to this many characters
MaxSize == 3            \* requested grid sizes MinSize..MaxSize
MaxHits == 3            \* a store accepts hits while its counts sum below this
MaxCount == 12          \* cell values 0..max_value <= MaxCount in the colour runs
MaxRasterSize == 1030   \* grid sizes MinSize..MaxRasterSize in the image-size runs

(* Program constants *)

MinSize == 2            \* the smallest size the caller layer passes on

-----------------------------------------------------------------------------
(* Characters *)

UpperCase ==
    << "A", "B", "C", "D", "E", "F", "G", "H", "I", "J", "K", "L", "M",
       "N", "O", "P", "Q", "R", "S", "T", "U", "V", "W", "X", "Y", "Z" >>

LowerCase ==
    << "a", "b", "c", "d", "e", "f", "g", "h", "i", "j", "k", "l", "m",
       "n", "o", "p", "q", "r", "s", "t", "u", "v", "w", "x", "y", "z" >>

AsciiDigits == << "0", "1", "2", "3", "4", "5", "6", "7", "8", "9" >>

\* Decimal digits outside ASCII (category Nd), which \d also matches in a
\* str pattern: ARABIC-INDIC DIGIT ONE, written by its code point.
UnicodeDigits == { "U+0661" }

Range(s) == { s[i] : i \in 1..Len(s) }

\* chr(n) for the code points of the ASCII letters
chr(n) ==
    IF n \in 65..90 THEN UpperCase[n - 64] ELSE LowerCase[n - 96]

\* str.upper() on one character: only cased characters change
upper_char(c) ==
    IF c \in Range(LowerCase)
    THEN UpperCase[CHOOSE i \in 1..26 : LowerCase[i] = c]
    ELSE c

\* str.upper()
upper(s) == [i \in 1..Len(s) |-> upper_char(s[i])]

\* the character class [a-zA-Z]
IsLetter(c) == c \in Range(UpperCase) \cup Range(LowerCase)

\* the character class \d
IsDigit(c) == c \in Range(AsciiDigits) \cup UnicodeDigits

-----------------------------------------------------------------------------
(* HitaKort._index_to_column *)

\* one pass through the body of the while loop
index_loop_body_no_decrement(st) ==
    [ index  |-> st.index \div 26,
      result |-> << chr(65 + (st.index % 26)) >> \o st.result ]

index_loop_body(st) ==
    LET index == st.index - 1
    IN  [ index  |-> index \div 26,
          result |-> << chr(65 + (index % 26)) >> \o st.result ]

\* the locals on entry to the loop: result = "", index += 1
index_loop_entry(index) == [ index |-> index + 1, result |-> << >> ]

RECURSIVE index_loop(_)
index_loop(st) ==
    IF st.index > 0 THEN index_loop(index_loop_body(st)) ELSE st.result

_index_to_column(index) == index_loop(index_loop_entry(index))

-----------------------------------------------------------------------------
(* Decimal conversions: f"{row}", and the numbers of the JSON text *)

RECURSIVE int_to_str(_)
int_to_str(n) ==
    IF n < 10
    THEN << AsciiDigits[n + 1] >>
    ELSE int_to_str(n \div 10) \o << AsciiDigits[(n % 10) + 1] >>

digit_value(c) == (CHOOSE i \in 1..10 : AsciiDigits[i] = c) - 1

RECURSIVE str_to_int(_)
str_to_int(s) ==
    IF Len(s) = 0
    THEN 0
    ELSE 10 * str_to_int(SubSeq(s, 1, Len(s) - 1)) + digit_value(s[Len(s)])

-----------------------------------------------------------------------------
(* dict[str, int]: pairs <<key, value>> in insertion order *)

dict_keys(d) == { d[i][1] : i \in 1..Len(d) }

dict_get(d, k) == d[CHOOSE i \in 1..Len(d) : d[i][1] = k][2]

\* d[k] = v: an existing key keeps its place, a new key goes last
dict_set(d, k, v) ==
    IF k \in dict_keys(d)
    THEN [i \in 1..Len(d) |-> IF d[i][1] = k THEN << k, v >> ELSE d[i]]
    ELSE Append(d, << k, v >>)

-----------------------------------------------------------------------------
(* json.dumps / json.loads of the grid.  The text of a JSON object is the  *)
(* sequence of its members, each a key string and a decimal numeral.       *)

EmptyObjectText == << >>        \* the text "{}"

json_dumps(grid) ==
    [i \in 1..Len(grid) |-> << grid[i][1], int_to_str(grid[i][2]) >>]

RECURSIVE json_loads_from(_, _, _)
json_loads_from(text, i, d) ==
    IF i > Len(text)
    THEN d
    ELSE LET member == dict_set(d, text[i][1], str_to_int(text[i][2]))
         IN  \* the member is stored before the next one is read
             IF Len(member) > 0
             THEN json_loads_from(text, i + 1, member)
             ELSE member

json_loads(text) == json_loads_from(text, 1, << >>)

-----------------------------------------------------------------------------
(* HIT_REGEX and HitaKort._normalize_point *)

\* where $ matches: at the end, and before a newline that ends the string
dollar_positions(s) ==
    { Len(s) } \cup
    (IF Len(s) > 0 /\ s[Len(s)] = "\n" THEN { Len(s) - 1 } ELSE { })

AllLetters(s, from, to) == \A i \in from..to : IsLetter(s[i])
AllDigits(s, from, to) == \A i \in from..to : IsDigit(s[i])

\* the splits <<k, e>> at which ^[a-zA-Z]+\d+$ matches s[1..k], s[k+1..e]
letters_numbers_splits(s) ==
    { ke \in (1..Len(s)) \X dollar_positions(s) :
        /\ ke[1] < ke[2]
        /\ AllLetters(s, 1, ke[1])
        /\ AllDigits(s, ke[1] + 1, ke[2]) }

\* the splits <<k, e>> at which ^\d+[a-zA-Z]+$ matches s[1..k], s[k+1..e]
numbers_letters_splits(s) ==
    { ke \in (1..Len(s)) \X dollar_positions(s) :
        /\ ke[1] < ke[2]
        /\ AllDigits(s, 1, ke[1])
        /\ AllLetters(s, ke[1] + 1, ke[2]) }

\* A group that took no part in the match is None, modelled as << >>:
\* both are false in a condition, and a group that matched is never empty.
None == << >>

\* re.match(HIT_REGEX, point): the first alternative that matches
HIT_REGEX_match(point) ==
    IF letters_numbers_splits(point) # { }
    THEN LET ke == CHOOSE x \in letters_numbers_splits(point) : TRUE
         IN  [ matched        |-> TRUE,
               letters        |-> SubSeq(point, 1, ke[1]),
               numbers        |-> SubSeq(point, ke[1] + 1, ke[2]),
               numbers_first  |-> None,
               letters_second |-> None ]
    ELSE IF numbers_letters_splits(point) # { }
    THEN LET ke == CHOOSE x \in numbers_letters_splits(point) : TRUE
         IN  [ matched        |-> TRUE,
               letters        |-> None,
               numbers        |-> None,
               numbers_first  |-> SubSeq(point, 1, ke[1]),
               letters_second |-> SubSeq(point, ke[1] + 1, ke[2]) ]
    ELSE [ matched        |-> FALSE,
           letters        |-> None,
           numbers        |-> None,
           numbers_first  |-> None,
           letters_second |-> None ]

\* The outcome of a call: what it raised ("" when it returned) and its value
Returned(v) == [ raised |-> "", value |-> v ]
Raised(e) == [ raised |-> e, value |-> << >> ]

_normalize_point_letters_first_only(point) ==
    LET groups == HIT_REGEX_match(point)
    IN  IF ~groups.matched
        THEN Raised("InvalidFormat")
        ELSE Returned(upper(groups.letters) \o groups.numbers)

_normalize_point(point) ==
    LET groups == HIT_REGEX_match(point)
    IN  IF ~groups.matched
        THEN Raised("InvalidFormat")
        ELSE IF groups.letters # << >>
        THEN Returned(upper(groups.letters) \o groups.numbers)
        ELSE Returned(upper(groups.letters_second) \o groups.numbers_first)

-----------------------------------------------------------------------------
(* Paths and files.  A path is the sequence of its components; a file is   *)
(* absent or holds a text.                                                 *)

DefaultFileName == "heatmap_data.json"

\* the Telegram users writing to the bot
Users == { 1, 2 }

\* one file name for every user
user_file_name_shared(user_id) == "user.json"

\* str(user_id) + ".json"
user_file_name(user_id) == ToString(user_id) \o ".json"

JsonFileNames == { DefaultFileName } \cup { user_file_name(u) : u \in Users }

\* Path.suffix: the extension of the last component
suffix(path) == IF path[Len(path)] \in JsonFileNames THEN ".json" ELSE ""

\* the paths callers construct stores on: a directory and a file in it
PathArgs == { << "data" >>, << "data", DefaultFileName >> }

\* the files these resolve to
Paths == { << "data", DefaultFileName >> }

Absent == [ exists |-> FALSE, text |-> << >> ]

write_text(fs, path, text) ==
    [fs EXCEPT ![path] = [ exists |-> TRUE, text |-> text ]]

-----------------------------------------------------------------------------
(* HitaKort *)

Handles == { "s1", "s2" }      \* the caller's variables holding stores

\* a caller with one store at a time, which it may construct anew
OneHandle == { "s1" }

NoStore == [ bound |-> FALSE ]

RECURSIVE initialize_grid_loop(_, _, _)
initialize_grid_loop(size, n, grid) ==
    IF n >= size * size
    THEN grid
    ELSE LET row == (n \div size) + 1
             col == n % size
             point == _index_to_column(col) \o int_to_str(row)
             zeroed == dict_set(grid, point, 0)
         IN  \* the entry is stored before the next point is formed
             IF Len(zeroed) > 0
             THEN initialize_grid_loop(size, n + 1, zeroed)
             ELSE zeroed

\* _initialize_grid with rows counted from 0
RECURSIVE initialize_grid_loop_from_zero(_, _, _)
initialize_grid_loop_from_zero(size, n, grid) ==
    IF n >= size * size
    THEN grid
    ELSE LET point == _index_to_column(n % size) \o int_to_str(n \div size)
         IN  initialize_grid_loop_from_zero(size, n + 1, dict_set(grid, point, 0))

_initialize_grid_rows_from_zero(self) ==
    [self EXCEPT !.grid = initialize_grid_loop_from_zero(self.size, 0, self.grid)]

\* for row in 1..size: for col in 0..size-1: grid[point] = 0
_initialize_grid(self) ==
    [self EXCEPT !.grid = initialize_grid_loop(self.size, 0, self.grid)]

\* the size taken as half the number of entries
int_sqrt_half(n) == n \div 2

\* int(n ** 0.5)
int_sqrt(n) == CHOOSE r \in 0..n : r * r <= n /\ n < (r + 1) * (r + 1)

\* _load_data taking the size from the file but keeping the zeroed grid
_load_data_keeps_grid(self, fs, override_size) ==
    LET file == fs[self.file_path]
        grid_data == json_loads(file.text)
    IN  IF file.exists /\ grid_data # << >>
        THEN IF override_size \/ Len(grid_data) = self.size * self.size
             THEN Returned([self EXCEPT !.size = int_sqrt(Len(grid_data))])
             ELSE Raised("SizeMismatch")
        ELSE Returned(self)

\* _load_data without the size check
_load_data_no_size_check(self, fs, override_size) ==
    LET file == fs[self.file_path]
        grid_data == json_loads(file.text)
    IN  IF file.exists /\ grid_data # << >>
        THEN Returned([self EXCEPT !.grid = grid_data,
                                   !.size = int_sqrt(Len(grid_data))])
        ELSE Returned(self)

_load_data(self, fs, override_size) ==
    LET file == fs[self.file_path]
        grid_data == json_loads(file.text)
    IN  IF file.exists /\ grid_data # << >>
        THEN IF override_size \/ Len(grid_data) = self.size * self.size
             THEN Returned([self EXCEPT !.grid = grid_data,
                                        !.size = int_sqrt(Len(grid_data))])
             ELSE Raised("SizeMismatch")
        ELSE Returned(self)

\* if not file_path.suffix: file_path = file_path / "heatmap_data.json"
resolve_path(file_path_arg) ==
    IF suffix(file_path_arg) = ""
    THEN Append(file_path_arg, DefaultFileName)
    ELSE file_path_arg

\* _save_data writing after what the file holds
_save_data_appends(self, fs) ==
    write_text(fs, self.file_path,
               fs[self.file_path].text \o json_dumps(self.grid))

_save_data(self, fs) == write_text(fs, self.file_path, json_dumps(self.grid))

\* HitaKort(file_path, grid_size, override_size): the files afterwards, and
\* the new object or the error raised
__init__(fs, file_path_arg, grid_size, override_size) ==
    LET file_path == resolve_path(file_path_arg)
        fs1 == IF ~fs[file_path].exists
               THEN write_text(fs, file_path, EmptyObjectText)
               ELSE fs
        self == _initialize_grid([ bound     |-> TRUE,
                                   grid      |-> << >>,
                                   size      |-> grid_size,
                                   file_path |-> file_path ])
        loaded == _load_data(self, fs1, override_size)
    IN  [ files |-> fs1, raised |-> loaded.raised, self |-> loaded.value ]

\* input_hit saving before it counts the hit
input_hit_save_first(self, fs, point) ==
    LET normalized_point == _normalize_point(point)
    IN  IF normalized_point.raised # ""
        THEN [ files |-> fs, self |-> self, raised |-> normalized_point.raised ]
        ELSE IF normalized_point.value \notin dict_keys(self.grid)
        THEN [ files |-> fs, self |-> self, raised |-> "OutOfRange" ]
        ELSE LET key == normalized_point.value
                 hit == [self EXCEPT
                           !.grid = dict_set(@, key, dict_get(@, key) + 1)]
             IN  [ files |-> _save_data(self, fs), self |-> hit, raised |-> "" ]

\* input_hit counting a label the grid does not hold from zero
input_hit_any_label(self, fs, point) ==
    LET normalized_point == _normalize_point(point)
    IN  IF normalized_point.raised # ""
        THEN [ files |-> fs, self |-> self, raised |-> normalized_point.raised ]
        ELSE LET key == normalized_point.value
                 count == IF key \in dict_keys(self.grid)
                          THEN dict_get(self.grid, key) ELSE 0
                 hit == [self EXCEPT !.grid = dict_set(@, key, count + 1)]
             IN  [ files |-> _save_data(hit, fs), self |-> hit, raised |-> "" ]

\* input_hit leaving a zero entry for the label it refuses
input_hit_keeping_refused(self, fs, point) ==
    LET normalized_point == _normalize_point(point)
    IN  IF normalized_point.raised # ""
        THEN [ files |-> fs, self |-> self, raised |-> normalized_point.raised ]
        ELSE IF normalized_point.value \notin dict_keys(self.grid)
        THEN [ files |-> fs,
               self |-> [self EXCEPT
                           !.grid = dict_set(@, normalized_point.value, 0)],
               raised |-> "OutOfRange" ]
        ELSE LET key == normalized_point.value
                 hit == [self EXCEPT
                           !.grid = dict_set(@, key, dict_get(@, key) + 1)]
             IN  [ files |-> _save_data(hit, fs), self |-> hit, raised |-> "" ]

\* self.input_hit(point): the files and the object afterwards, and the
\* error raised if any
input_hit(self, fs, point) ==
    LET normalized_point == _normalize_point(point)
    IN  IF normalized_point.raised # ""
        THEN [ files |-> fs, self |-> self, raised |-> normalized_point.raised ]
        ELSE IF normalized_point.value \notin dict_keys(self.grid)
        THEN [ files |-> fs, self |-> self, raised |-> "OutOfRange" ]
        ELSE LET key == normalized_point.value
                 hit == [self EXCEPT
                           !.grid = dict_set(@, key, dict_get(@, key) + 1)]
             IN  [ files |-> _save_data(hit, fs), self |-> hit, raised |-> "" ]

\* generate_heatmap_data with rows and columns exchanged
generate_heatmap_data_transposed(self) ==
    [row \in 0..(self.size - 1) |->
        [col \in 0..(self.size - 1) |->
            dict_get(self.grid, _index_to_column(row) \o int_to_str(col + 1))]]

\* self.generate_heatmap_data(): rows and columns are indexed from 0
generate_heatmap_data(self) ==
    [row \in 0..(self.size - 1) |->
        [col \in 0..(self.size - 1) |->
            dict_get(self.grid, _index_to_column(col) \o int_to_str(row + 1))]]

-----------------------------------------------------------------------------
(* The stores of a caller: constructions and hits in any order *)

Sizes == MinSize..MaxSize

HitPoints ==
    { << "A", "1" >>, << "a", "1" >>, << "1", "a" >>, << "2", "b" >>,
      << "b", "1" >>, << "c", "3" >>, << "A", "1", "\n" >>,
      << "D", "1" >>, << "A", "5" >>, << "A", "0", "1" >>,
      << "A", "U+0661" >>, << "A" >>, << "A", " ", "1" >> }

RECURSIVE dict_total(_)
dict_total(d) ==
    IF Len(d) = 0 THEN 0 ELSE d[1][2] + dict_total(Tail(d))

NoCall ==
    [ op |-> "", handle |-> "", file_path |-> << >>, grid_size |-> 0,
      override_size |-> FALSE, point |-> << >>, raised |-> "" ]

NoHistory == [ fresh |-> FALSE, hits |-> EmptyBag ]

NoFunctionCall ==
    /\ pc = "idle"
    /\ arg = << >>
    /\ loc = << >>
    /\ ret = << >>

Init ==
    /\ files = [p \in Paths |-> Absent]
    /\ stores = [h \in Handles |-> NoStore]
    /\ last = NoCall
    /\ hist = [h \in Handles |-> NoHistory]
    /\ NoFunctionCall

\* h = HitaKort(file_path, grid_size, override_size)
Construct(h, file_path, grid_size, override_size) ==
    LET r == __init__(files, file_path, grid_size, override_size)
        before == files[r.self.file_path]
    IN  /\ files' = r.files
        /\ stores' = IF r.raised = "" THEN [stores EXCEPT ![h] = r.self]
                                      ELSE stores
        /\ hist' = IF r.raised = ""
                   THEN [hist EXCEPT ![h] =
                           [ fresh |-> ~before.exists
                                       \/ json_loads(before.text) = << >>,
                             hits  |-> EmptyBag ]]
                   ELSE hist
        /\ last' = [ op |-> "__init__", handle |-> h, file_path |-> file_path,
                     grid_size |-> grid_size, override_size |-> override_size,
                     point |-> << >>, raised |-> r.raised ]
        /\ UNCHANGED callVars

\* h.input_hit(point)
InputHit(h, point) ==
    /\ stores[h] # NoStore
    /\ LET r == input_hit(stores[h], files, point)
       IN  /\ r.raised = "" => dict_total(stores[h].grid) < MaxHits
           /\ files' = r.files
           /\ stores' = [stores EXCEPT ![h] = r.self]
           /\ hist' = IF r.raised = "" /\ hist[h].fresh
                      THEN [hist EXCEPT ![h].hits =
                              @ (+) SetToBag({ _normalize_point(point).value })]
                      ELSE hist
           /\ last' = [ op |-> "input_hit", handle |-> h, file_path |-> << >>,
                        grid_size |-> 0, override_size |-> FALSE,
                        point |-> point, raised |-> r.raised ]
    /\ UNCHANGED callVars

Next ==
    \/ \E h \in OneHandle, file_path \in PathArgs, grid_size \in Sizes,
          override_size \in BOOLEAN :
            Construct(h, file_path, grid_size, override_size)
    \/ \E h \in OneHandle, point \in HitPoints : InputHit(h, point)

Spec == Init /\ [][Next]_vars

-----------------------------------------------------------------------------
(* _index_to_column run on its own, one pass of its loop at a time *)

NoStores ==
    /\ files = [p \in Paths |-> Absent]
    /\ stores = [h \in Handles |-> NoStore]
    /\ last = NoCall
    /\ hist = [h \in Handles |-> NoHistory]

InitColumn ==
    /\ NoStores
    /\ pc = "loop"
    /\ arg \in 0..MaxIndex
    /\ loc = index_loop_entry(arg)
    /\ ret = << >>

\* while index > 0: one pass
ColumnLoop ==
    /\ pc = "loop"
    /\ loc.index > 0
    /\ loc' = index_loop_body(loc)
    /\ UNCHANGED << pc, arg, ret >>
    /\ UNCHANGED storeVars

\* return result
ColumnReturn ==
    /\ pc = "loop"
    /\ ~(loc.index > 0)
    /\ pc' = "done"
    /\ ret' = loc.result
    /\ UNCHANGED << arg, loc >>
    /\ UNCHANGED storeVars

NextColumn == ColumnLoop \/ ColumnReturn

\* the loop is sequential code: it takes its next step whenever it has one
SpecColumn == InitColumn /\ [][NextColumn]_vars /\ WF_vars(NextColumn)

-----------------------------------------------------------------------------
(* _normalize_point run on its own, on every short string of these         *)
(* characters                                                              *)

PointChars == { "a", "A", "b", "0", "1", "U+0661", "\n", " " }

RawPoints == UNION { [1..n -> PointChars] : n \in 0..MaxPointLen }

InitNormalize ==
    /\ NoStores
    /\ pc = "call"
    /\ arg \in RawPoints
    /\ loc = << >>
    /\ ret = << >>

NormalizeCall ==
    /\ pc = "call"
    /\ pc' = "done"
    /\ ret' = _normalize_point(arg)
    /\ UNCHANGED << arg, loc >>
    /\ UNCHANGED storeVars

NextNormalize == NormalizeCall

SpecNormalize == InitNormalize /\ [][NextNormalize]_vars

-----------------------------------------------------------------------------
(* Colours.  A colour is << red, green, blue >>.  The quotients value /     *)
(* max_value and c / 255 are floats in the code; for counts and channels    *)
(* of this size int(255 * (value / max_value)) is the integer quotient of   *)
(* 255 * value by max_value, and round(c / 255 * 5) never meets a tie.      *)

\* _get_color rounding to the nearest intensity
_get_color_rounded(value, max_value) ==
    IF max_value = 0
    THEN << 255, 255, 255 >>
    ELSE LET intensity == (2 * 255 * value + max_value) \div (2 * max_value)
         IN  << 255, 255 - intensity, 255 - intensity >>

\* HitaKort._get_color
_get_color(value, max_value) ==
    IF max_value = 0
    THEN << 255, 255, 255 >>
    ELSE LET intensity == (255 * value) \div max_value
         IN  << 255, 255 - intensity, 255 - intensity >>

\* .astype(np.uint8) of a value that is not negative
uint8(x) == x % 256

\* generate_heatmap_image: the colour of the pixels of a cell
image_cell_color(value, max_value) ==
    LET scaled == IF max_value > 0
                  THEN (255 * value) \div max_value     \* normalized_data * 255
                  ELSE value * 255
        rest == 255 - uint8(scaled)
    IN  << 255, rest, rest >>

\* the level taken by rounding down
color_level_floor(c) == (5 * c) \div 255

\* round(c / 255 * 5)
color_level(c) == (10 * c + 255) \div 510

\* the number n of the escape sequence "\033[38;5;{n}m"
_get_ascii_color(value, max_value) ==
    IF max_value = 0
    THEN 255
    ELSE LET rgb == _get_color(value, max_value)
         IN  16 + (36 * color_level(rgb[1])) + (6 * color_level(rgb[2]))
                + color_level(rgb[3])

-----------------------------------------------------------------------------
(* The colour functions run on their own, on every value up to a maximum *)

InitColor ==
    /\ NoStores
    /\ pc = "call"
    /\ arg \in { vm \in (0..MaxCount) \X (0..MaxCount) : vm[1] <= vm[2] }
    /\ loc = << >>
    /\ ret = << >>

GetColorCall ==
    /\ pc = "call"
    /\ pc' = "_get_color"
    /\ ret' = _get_color(arg[1], arg[2])
    /\ UNCHANGED << arg, loc >>
    /\ UNCHANGED storeVars

ImageColorCall ==
    /\ pc = "call"
    /\ pc' = "image_cell_color"
    /\ ret' = image_cell_color(arg[1], arg[2])
    /\ UNCHANGED << arg, loc >>
    /\ UNCHANGED storeVars

AsciiColorCall ==
    /\ pc = "call"
    /\ pc' = "_get_ascii_color"
    /\ ret' = _get_ascii_color(arg[1], arg[2])
    /\ UNCHANGED << arg, loc >>
    /\ UNCHANGED storeVars

NextColor == GetColorCall \/ ImageColorCall \/ AsciiColorCall

SpecColor == InitColor /\ [][NextColor]_vars

-----------------------------------------------------------------------------
(* The renderers *)

ImageLimit == 1024      \* the side of the largest image

Maximum(S) == CHOOSE x \in S : \A y \in S : y <= x

\* max(max(row) for row in heatmap_data) / np.max(heatmap_data)
heatmap_max(data, size) ==
    Maximum({ data[r][c] : r \in 0..(size - 1), c \in 0..(size - 1) })

\* img_size = min(1024, self.size * (1024 // self.size))
heatmap_image_size(size) ==
    LET fit == size * (ImageLimit \div size)
    IN  IF fit < ImageLimit THEN fit ELSE ImageLimit

\* self.generate_heatmap_image(): the side of the image, the side of a cell
\* (the repeat count), the colour that fills each cell, and the positions
\* of the black lines drawn over them
generate_heatmap_image(self) ==
    LET data == generate_heatmap_data(self)
        max_value == heatmap_max(data, self.size)
        img_size == heatmap_image_size(self.size)
        step == img_size \div self.size
    IN  [ width   |-> img_size,
          height  |-> img_size,
          cell_px |-> img_size \div self.size,
          cells   |-> [row \in 0..(self.size - 1) |->
                        [col \in 0..(self.size - 1) |->
                            image_cell_color(data[row][col], max_value)]],
          lines   |-> { i * step : i \in 1..(self.size - 1) } ]

\* self.generate_ascii_heatmap(): the column labels of the first line, and
\* for each further line its row number and the colour numbers of its cells
generate_ascii_heatmap(self) ==
    LET data == generate_heatmap_data(self)
        max_value == heatmap_max(data, self.size)
    IN  [ col_labels |-> [i \in 0..(self.size - 1) |-> _index_to_column(i)],
          rows |-> [row \in 0..(self.size - 1) |->
                      [ label |-> row + 1,
                        cells |-> [col \in 0..(self.size - 1) |->
                                     _get_ascii_color(data[row][col], max_value)] ]] ]

-----------------------------------------------------------------------------
(* A caller that constructs a store, records hits and renders *)

RenderPoints ==
    { << "A", "1" >>, << "b", "1" >>, << "2", "b" >>, << "D", "1" >>, << "A" >> }

\* a call that read the store and returned value
ReadCall(op, h, value) ==
    [ op |-> op, handle |-> h, file_path |-> << >>, grid_size |-> 0,
      override_size |-> FALSE, point |-> << >>, raised |-> "", value |-> value ]

\* h.generate_heatmap_data()
RawCounts(h) ==
    /\ stores[h] # NoStore
    /\ last' = ReadCall("generate_heatmap_data", h, generate_heatmap_data(stores[h]))
    /\ UNCHANGED << files, stores, hist >>
    /\ UNCHANGED callVars

\* h.generate_heatmap_image()
RenderRaster(h) ==
    /\ stores[h] # NoStore
    /\ last' = ReadCall("generate_heatmap_image", h, generate_heatmap_image(stores[h]))
    /\ UNCHANGED << files, stores, hist >>
    /\ UNCHANGED callVars

\* a renderer that saves the grid it has drawn
RenderText_saving(h) ==
    /\ stores[h] # NoStore
    /\ last' = ReadCall("generate_ascii_heatmap", h, generate_ascii_heatmap(stores[h]))
    /\ files' = _save_data(stores[h], files)
    /\ UNCHANGED << stores, hist >>
    /\ UNCHANGED callVars

\* h.generate_ascii_heatmap()
RenderText(h) ==
    /\ stores[h] # NoStore
    /\ last' = ReadCall("generate_ascii_heatmap", h, generate_ascii_heatmap(stores[h]))
    /\ UNCHANGED << files, stores, hist >>
    /\ UNCHANGED callVars

NextRender ==
    \/ \E h \in OneHandle, file_path \in PathArgs, grid_size \in Sizes,
          override_size \in BOOLEAN :
            Construct(h, file_path, grid_size, override_size)
    \/ \E h \in OneHandle, point \in RenderPoints : InputHit(h, point)
    \/ \E h \in OneHandle : RawCounts(h)
    \/ \E h \in OneHandle : RenderRaster(h)
    \/ \E h \in OneHandle : RenderText(h)

SpecRender == Init /\ [][NextRender]_vars

-----------------------------------------------------------------------------
(* The size of the image, computed on its own for every size a caller sets *)

\* What generate_heatmap_image can return for a grid of this size.  The
\* array built for an image of side 0 is empty, and Image.fromarray of an
\* empty array either raises or gives an image without pixels.
raster_outcomes(size) ==
    LET img_size == heatmap_image_size(size)
        image == [ width   |-> img_size,
                   height  |-> img_size,
                   cell_px |-> img_size \div size ]
    IN  IF img_size = 0
        THEN { Raised("ValueError"), Returned(image) }
        ELSE { Returned(image) }

InitRaster ==
    /\ NoStores
    /\ pc = "call"
    /\ arg \in MinSize..MaxRasterSize
    /\ loc = << >>
    /\ ret = << >>

RasterCall ==
    /\ pc = "call"
    /\ pc' = "done"
    /\ ret' \in raster_outcomes(arg)
    /\ UNCHANGED << arg, loc >>
    /\ UNCHANGED storeVars

NextRaster == RasterCall

SpecRaster == InitRaster /\ [][NextRaster]_vars

-----------------------------------------------------------------------------
(* Two stores open on one backing file *)

TwoPoints == { << "A", "1" >>, << "b", "1" >> }

NextTwo ==
    \/ \E h \in Handles, file_path \in Paths, grid_size \in Sizes,
          override_size \in BOOLEAN :
            Construct(h, file_path, grid_size, override_size)
    \/ \E h \in Handles, point \in TwoPoints : InputHit(h, point)

SpecTwo == Init /\ [][NextTwo]_vars

-----------------------------------------------------------------------------
(* HitaKortBot: one store for each user, kept in users/<user_id>.json *)

DefaultSize == 6

\* self.hitakort_path = hitakort_path / "users"
hitakort_path == << "users" >>

UserPaths == { Append(hitakort_path, user_file_name(u)) : u \in Users }

\* int(file.stem)
stem_user_id(path) == CHOOSE u \in Users : user_file_name(u) = path[Len(path)]

\* self.hitakort_path.glob("*.json")
glob_json(fs) ==
    { p \in DOMAIN fs :
        /\ fs[p].exists
        /\ SubSeq(p, 1, Len(p) - 1) = hitakort_path
        /\ suffix(p) = ".json" }

\* Path.unlink(missing_ok=True)
unlink(fs, path) == [fs EXCEPT ![path] = Absent]

\* int(text) returns; otherwise it raises ValueError
int_parses(text) ==
    /\ Len(text) > 0
    /\ \A i \in 1..Len(text) : text[i] \in Range(AsciiDigits)

\* what a handler leaves behind, and the reply it sent
Handled(hitakorts, fs, reply) ==
    [ hitakorts |-> hitakorts, files |-> fs, reply |-> reply ]

\* /size with context.args = args (empty, or the first word after /size)
size_command(hitakorts, fs, user_id, args) ==
    IF hitakorts[user_id] # NoStore
    THEN Handled(hitakorts, fs, "Grid Size Already Set")
    ELSE IF args = << >>
    THEN Handled(hitakorts, fs, "Set Grid Size")
    ELSE IF ~int_parses(args) \/ str_to_int(args) < MinSize
    THEN Handled(hitakorts, fs, "Invalid Grid Size")
    ELSE LET r == __init__(fs, Append(hitakort_path, user_file_name(user_id)),
                           str_to_int(args), TRUE)
         IN  Handled([hitakorts EXCEPT ![user_id] = r.self], r.files,
                     "Grid Size Set")

\* /image
heatmap(hitakorts, fs, user_id) ==
    IF hitakorts[user_id] = NoStore
    THEN Handled(hitakorts, fs, "Grid Size Not Set")
    ELSE Handled(hitakorts, fs, "heatmap.png")

\* /reset forgetting the store and leaving its file
reset_keeping_file(hitakorts, fs, user_id) ==
    IF hitakorts[user_id] = NoStore
    THEN Handled(hitakorts, fs, "Grid Size Not Set")
    ELSE Handled([hitakorts EXCEPT ![user_id] = NoStore], fs, "Grid Reset")

\* /reset
reset(hitakorts, fs, user_id) ==
    IF hitakorts[user_id] = NoStore
    THEN Handled(hitakorts, fs, "Grid Size Not Set")
    ELSE Handled([hitakorts EXCEPT ![user_id] = NoStore],
                 unlink(fs, hitakorts[user_id].file_path),
                 "Grid Reset")

\* a text message that HIT_REGEX matches
add_hit(hitakorts, fs, user_id, text) ==
    IF hitakorts[user_id] = NoStore
    THEN Handled(hitakorts, fs, "Grid Size Not Set")
    ELSE LET hit == upper(text)
             r == input_hit(hitakorts[user_id], fs, hit)
         IN  IF r.raised = ""
             THEN Handled([hitakorts EXCEPT ![user_id] = r.self], r.files,
                          "Hit Added")
             ELSE Handled(hitakorts, fs, "Invalid Hit")

\* any other text message
wrong_format(hitakorts, fs, user_id) == Handled(hitakorts, fs, "Wrong format")

\* the loop of post_init in a bot just created: a store for every file
post_init(fs) ==
    [u \in Users |->
        IF \E f \in glob_json(fs) : stem_user_id(f) = u
        THEN LET user_file == CHOOSE f \in glob_json(fs) : stem_user_id(f) = u
             IN  __init__(fs, user_file, DefaultSize, TRUE).self
        ELSE NoStore]

\* one user writing to the bot
OneUser == { 1 }

\* context.args of a /size command: none, or its first word
SizeArgs == { << >>, << "1" >>, << "2" >>, << "3" >>, << "x" >> }

\* the text messages users send
Texts == { << "a", "1" >>, << "b", "1" >>, << "D", "1" >>, << "A" >> }

NoUpdate == [ op |-> "", user |-> 0, args |-> << >>, reply |-> "" ]

\* for each user: the hits added since the user's last /size, and the
\* labels that held a count when the user sent /reset
NoBotHistory == [ hits |-> EmptyBag, erased |-> { } ]

InitBot ==
    /\ files = [p \in UserPaths |-> Absent]
    /\ stores = [u \in Users |-> NoStore]
    /\ last = NoUpdate
    /\ hist = [u \in Users |-> NoBotHistory]
    /\ NoFunctionCall

Update(op, u, args, r) ==
    /\ stores' = r.hitakorts
    /\ files' = r.files
    /\ last' = [ op |-> op, user |-> u, args |-> args, reply |-> r.reply ]
    /\ UNCHANGED callVars

SizeCommand(u, args) ==
    LET r == size_command(stores, files, u, args)
    IN  /\ Update("size", u, args, r)
        /\ hist' = IF r.reply = "Grid Size Set"
                   THEN [hist EXCEPT ![u].hits = EmptyBag]
                   ELSE hist

ImageCommand(u) ==
    /\ Update("heatmap", u, << >>, heatmap(stores, files, u))
    /\ UNCHANGED hist

ResetCommand(u) ==
    LET r == reset(stores, files, u)
    IN  /\ Update("reset", u, << >>, r)
        /\ hist' = IF r.reply = "Grid Reset"
                   THEN [hist EXCEPT
                           ![u].hits = EmptyBag,
                           ![u].erased =
                               @ \cup { k \in dict_keys(stores[u].grid) :
                                          dict_get(stores[u].grid, k) > 0 }]
                   ELSE hist

\* a text message goes to the first handler whose filter accepts it
TextMessage(u, text) ==
    IF HIT_REGEX_match(text).matched
    THEN LET r == add_hit(stores, files, u, text)
         IN  /\ r.reply = "Hit Added" => dict_total(stores[u].grid) < MaxHits
             /\ Update("add_hit", u, text, r)
             /\ hist' = IF r.reply = "Hit Added"
                        THEN [hist EXCEPT ![u].hits =
                                @ (+) SetToBag({ _normalize_point(upper(text)).value })]
                        ELSE hist
    ELSE /\ Update("wrong_format", u, text, wrong_format(stores, files, u))
         /\ UNCHANGED hist

\* the bot process ends and a new one starts on the files left behind
Restart ==
    /\ stores' = post_init(files)
    /\ last' = [ op |-> "post_init", user |-> 0, args |-> << >>, reply |-> "" ]
    /\ UNCHANGED << files, hist, callVars >>

NextBot ==
    \/ \E u \in OneUser, args \in SizeArgs : SizeCommand(u, args)
    \/ \E u \in OneUser : ImageCommand(u)
    \/ \E u \in OneUser : ResetCommand(u)
    \/ \E u \in OneUser, text \in Texts : TextMessage(u, text)
    \/ Restart

SpecBot == InitBot /\ [][NextBot]_vars

-----------------------------------------------------------------------------
(* HitaKortBot with two users, whose updates the handlers take in any order. *)
(* Every handler is non-blocking, and each awaits only its reply, after it   *)
(* read and changed self.hitakorts and the files: one step for each update.  *)

UserSizeArgs == { << "2" >> }

UserTexts == { << "a", "1" >>, << "D", "1" >> }

NextUsers ==
    \/ \E u \in Users, args \in UserSizeArgs : SizeCommand(u, args)
    \/ \E u \in Users : ImageCommand(u)
    \/ \E u \in Users : ResetCommand(u)
    \/ \E u \in Users, text \in UserTexts : TextMessage(u, text)
    \/ Restart

SpecUsers == InitBot /\ [][NextUsers]_vars

-----------------------------------------------------------------------------
(* What the properties speak of *)

\* the labels of a size x size grid: column_to_label(c) followed by r
GridLabels(size) ==
    { _index_to_column(c) \o int_to_str(r) :
        c \in 0..(size - 1), r \in 1..size }

\* s is, in its entirety, letters then digits, split after position k
LettersThenDigits(s, k) ==
    /\ k \in 1..(Len(s) - 1)
    /\ \A i \in 1..k : IsLetter(s[i])
    /\ \A i \in (k + 1)..Len(s) : IsDigit(s[i])

\* s is, in its entirety, digits then letters, split after position k
DigitsThenLetters(s, k) ==
    /\ k \in 1..(Len(s) - 1)
    /\ \A i \in 1..k : IsDigit(s[i])
    /\ \A i \in (k + 1)..Len(s) : IsLetter(s[i])

WellFormed(s) ==
    \E k \in 1..Len(s) : LettersThenDigits(s, k) \/ DigitsThenLetters(s, k)

\* the canonical label of a well-formed point: upper-case letters, digits
Canonical(s) ==
    LET k == CHOOSE j \in 1..Len(s) :
                 LettersThenDigits(s, j) \/ DigitsThenLetters(s, j)
    IN  IF LettersThenDigits(s, k)
        THEN upper(SubSeq(s, 1, k)) \o SubSeq(s, k + 1, Len(s))
        ELSE upper(SubSeq(s, k + 1, Len(s))) \o SubSeq(s, 1, k)

\* the step just taken was this call
HitStep == last'.op = "input_hit"
ConstructStep == last'.op = "__init__"

TheFile(h) == files[stores[h].file_path]

-----------------------------------------------------------------------------
(* Properties of the store *)

\* C1: a successful record_hit(p) adds exactly 1 to the count of the one
\* entry normalize(p), leaves every other entry, the set of labels and the
\* size as they were, and leaves the backing file holding the whole updated
\* grid, all N*N entries.
C1_HitIncrementsOneEntry ==
    [][ (HitStep /\ last'.raised = "") =>
          LET h == last'.handle
              before == stores[h]
              after == stores'[h]
              key == _normalize_point(last'.point).value
              file == files'[after.file_path]
          IN  /\ key \in dict_keys(before.grid)
              /\ dict_keys(after.grid) = dict_keys(before.grid)
              /\ dict_get(after.grid, key) = dict_get(before.grid, key) + 1
              /\ \A k \in dict_keys(before.grid) \ { key } :
                    dict_get(after.grid, k) = dict_get(before.grid, k)
              /\ after.size = before.size
              /\ after.file_path = before.file_path
              /\ file.exists
              /\ Len(file.text) = after.size * after.size
              /\ { m[1] : m \in Range(file.text) } = dict_keys(after.grid)
              /\ \A m \in Range(file.text) :
                    str_to_int(m[2]) = dict_get(after.grid, m[1])
    ]_vars

\* a hit has just succeeded on a grid that already held a count elsewhere
C1_Witness ==
    /\ last.op = "input_hit"
    /\ last.raised = ""
    /\ LET grid == stores[last.handle].grid
       IN  \E i, j \in 1..Len(grid) : i # j /\ grid[i][2] > 0 /\ grid[j][2] > 0

\* C2: every store holds exactly size * size entries, one for each label
\* column_to_label(c) followed by r with c in 0..size-1 and r in 1..size,
\* with counts that are non-negative integers; a store just constructed
\* on an absent or empty file has the requested size and only zero counts.
C2_GridShape ==
    \A h \in Handles :
        stores[h] # NoStore =>
            LET self == stores[h]
            IN  /\ Len(self.grid) = self.size * self.size
                /\ dict_keys(self.grid) = GridLabels(self.size)
                /\ \A i \in 1..Len(self.grid) : self.grid[i][2] \in Nat
                /\ (last.op = "__init__" /\ last.raised = ""
                        /\ last.handle = h /\ hist[h].fresh) =>
                      /\ self.size = last.grid_size
                      /\ \A i \in 1..Len(self.grid) : self.grid[i][2] = 0

\* a store of the largest size with hits on it, and the file written
C2_Witness ==
    \E h \in Handles :
        /\ stores[h] # NoStore
        /\ stores[h].size = MaxSize
        /\ dict_total(stores[h].grid) >= 2
        /\ TheFile(h).text # EmptyObjectText

\* C3: once a record_hit on a store S has succeeded, a store constructed on
\* the same backing file, with override_size true or with the size of S
\* requested, has the size of S and the count of S for every label.
C3_RoundTrip ==
    [][ ( /\ last.op = "input_hit" /\ last.raised = ""
          /\ ConstructStep
          /\ resolve_path(last'.file_path) = stores[last.handle].file_path
          /\ last'.override_size \/ last'.grid_size = stores[last.handle].size )
        =>
          LET S == stores[last.handle]
              new == stores'[last'.handle]
          IN  /\ last'.raised = ""
              /\ new.size = S.size
              /\ dict_keys(new.grid) = dict_keys(S.grid)
              /\ \A k \in dict_keys(S.grid) :
                    dict_get(new.grid, k) = dict_get(S.grid, k)
    ]_vars

\* a store constructed with another size requested, holding recorded hits
C3_Witness ==
    /\ last.op = "__init__"
    /\ last.raised = ""
    /\ last.override_size
    /\ last.grid_size # stores[last.handle].size
    /\ dict_total(stores[last.handle].grid) >= 2

\* C4: on a store constructed on an empty backing file, raw_counts()[r][c]
\* is the number of successful record_hit calls whose normalized label is
\* column_to_label(c) followed by r + 1, and the cells add up to the number
\* of successful calls.
C4_RawCountsCountHits ==
    \A h \in Handles :
        (stores[h] # NoStore /\ hist[h].fresh) =>
            LET data == generate_heatmap_data(stores[h])
                cells == (0..(stores[h].size - 1)) \X (0..(stores[h].size - 1))
            IN  /\ \A rc \in cells :
                      data[rc[1]][rc[2]] =
                          CopiesIn(_index_to_column(rc[2]) \o int_to_str(rc[1] + 1),
                                   hist[h].hits)
                /\ dict_total(stores[h].grid) = BagCardinality(hist[h].hits)

\* hits recorded off the diagonal and twice on one cell
C4_Witness ==
    \E h \in Handles :
        /\ stores[h] # NoStore
        /\ hist[h].fresh
        /\ generate_heatmap_data(stores[h])[0][1] = 1
        /\ generate_heatmap_data(stores[h])[0][0] = 2

\* C5: record_hit on a well-formed point whose label is not one of the
\* grid's keys (its column or its row lies beyond the size, or the label is
\* not a key for another reason) fails with OutOfRange and changes no count.
C5_OutOfRange ==
    [][ ( /\ HitStep
          /\ WellFormed(last'.point)
          /\ Canonical(last'.point) \notin GridLabels(stores[last'.handle].size) )
        =>
          /\ last'.raised = "OutOfRange"
          /\ stores' = stores
          /\ files' = files
    ]_vars

\* a hit beyond the last column was refused on a store holding hits
C5_Witness ==
    /\ last.op = "input_hit"
    /\ last.raised = "OutOfRange"
    /\ last.point = << "D", "1" >>
    /\ dict_total(stores[last.handle].grid) >= 1

\* C9: constructing with override_size false on a backing file that holds
\* entries, but not requested_size squared of them, fails with SizeMismatch,
\* binds no store and leaves the backing file as it was.
C9_SizeMismatch ==
    [][ ( /\ ConstructStep
          /\ ~last'.override_size
          /\ LET file == files[resolve_path(last'.file_path)]
             IN  /\ file.exists
                 /\ file.text # EmptyObjectText
                 /\ Len(file.text) # last'.grid_size * last'.grid_size )
        =>
          /\ last'.raised = "SizeMismatch"
          /\ stores' = stores
          /\ files' = files
    ]_vars

\* a construction was refused
C9_Witness ==
    /\ last.op = "__init__"
    /\ last.raised = "SizeMismatch"
    /\ last.grid_size = 2
    /\ \E p \in Paths : Len(files[p].text) = 9

\* C10: constructing on a backing file that holds M * M entries gives a
\* store of size M with the persisted counts, whatever size is requested
\* when override_size is true and when M is requested otherwise;
\* constructing on an absent or empty file gives the requested size and
\* only zero counts.
C10_ConstructLoads ==
    [][ ConstructStep =>
          LET file == files[resolve_path(last'.file_path)]
              new == stores'[last'.handle]
          IN  IF file.exists /\ file.text # EmptyObjectText
              THEN \A M \in 1..Len(file.text) :
                      ( /\ M * M = Len(file.text)
                        /\ last'.override_size \/ last'.grid_size = M )
                      =>
                        /\ last'.raised = ""
                        /\ new.size = M
                        /\ Len(new.grid) = M * M
                        /\ \A m \in Range(file.text) :
                              /\ m[1] \in dict_keys(new.grid)
                              /\ dict_get(new.grid, m[1]) = str_to_int(m[2])
              ELSE /\ last'.raised = ""
                   /\ new.size = last'.grid_size
                   /\ dict_keys(new.grid) = GridLabels(last'.grid_size)
                   /\ \A k \in dict_keys(new.grid) : dict_get(new.grid, k) = 0
    ]_vars

\* a store loaded from a file of another size than the one requested
C10_Witness ==
    /\ last.op = "__init__"
    /\ last.raised = ""
    /\ last.grid_size = 2
    /\ stores[last.handle].size = 3
    /\ \E i \in 1..9 : stores[last.handle].grid[i][2] = 2

-----------------------------------------------------------------------------
(* Properties of the codec *)

\* C6: normalize fails with InvalidFormat on every string that is not, in
\* its entirety, letters followed by digits or digits followed by letters:
\* the empty string, letters only, digits only, and any string with a
\* whitespace or symbol character anywhere, a trailing newline included.
C6_MalformedRejected ==
    (pc = "done" /\ ~WellFormed(arg)) => ret.raised = "InvalidFormat"

\* C7: for letters L and digits D, normalize returns upper(L) followed by D
\* for L written before D and for L written after D, in every mix of cases,
\* and normalize returns its own output unchanged.
C7_CanonicalLabel ==
    pc = "done" =>
        /\ \A k \in 1..Len(arg) :
              LettersThenDigits(arg, k) =>
                  ret = Returned(upper(SubSeq(arg, 1, k))
                                 \o SubSeq(arg, k + 1, Len(arg)))
        /\ \A k \in 1..Len(arg) :
              DigitsThenLetters(arg, k) =>
                  ret = Returned(upper(SubSeq(arg, k + 1, Len(arg)))
                                 \o SubSeq(arg, 1, k))
        /\ ret.raised = "" =>
              /\ \A i \in 1..Len(ret.value) : ret.value[i] \notin Range(LowerCase)
              /\ _normalize_point(ret.value) = ret

\* digits written first, a lower-case letter last
C7_Witness ==
    /\ pc = "done"
    /\ arg = << "1", "0", "b" >>
    /\ ret = Returned(<< "B", "1", "0" >>)

\* the place of a letter in the alphabet, A = 1 .. Z = 26
LetterNumber(c) == CHOOSE i \in 1..26 : UpperCase[i] = c

\* the number a label writes in bijective base 26
RECURSIVE LabelValue(_)
LabelValue(label) ==
    IF Len(label) = 0
    THEN 0
    ELSE 26 * LabelValue(SubSeq(label, 1, Len(label) - 1))
         + LetterNumber(label[Len(label)])

\* shorter labels first, labels of one length in alphabetical order
LabelLess(a, b) ==
    \/ Len(a) < Len(b)
    \/ /\ Len(a) = Len(b)
       /\ \E i \in 1..Len(a) :
             /\ LetterNumber(a[i]) < LetterNumber(b[i])
             /\ \A j \in 1..(i - 1) : a[j] = b[j]

\* C8: column_to_label ends for every index, is the bijective base-26
\* numeral of index + 1 (0 -> "A", 25 -> "Z", 26 -> "AA", 51 -> "AZ",
\* 701 -> "ZZ"), and is injective and strictly increasing in the
\* length-then-alphabetical order of labels.
C8_ColumnLabels ==
    /\ <>(pc = "done")
    /\ [](pc = "done" =>
            /\ arg = 0 => ret = << "A" >>
            /\ arg = 25 => ret = << "Z" >>
            /\ arg = 26 => ret = << "A", "A" >>
            /\ arg = 51 => ret = << "A", "Z" >>
            /\ arg = 701 => ret = << "Z", "Z" >>
            /\ Len(ret) >= 1
            /\ \A i \in 1..Len(ret) : ret[i] \in Range(UpperCase)
            /\ LabelValue(ret) = arg + 1
            /\ ret = _index_to_column(arg)
            /\ \A j \in 0..(arg - 1) :
                  /\ _index_to_column(j) # ret
                  /\ LabelLess(_index_to_column(j), ret))

\* the last label of two letters
C8_Witness ==
    /\ pc = "done"
    /\ arg = 701
    /\ ret = << "Z", "Z" >>

-----------------------------------------------------------------------------
(* Properties of the colours *)

\* an integer nearest to the quotient a / b
IsNearest(i, a, b) == 2 * i * b - 2 * a <= b /\ 2 * a - 2 * i * b <= b

\* C11 as stated: with 0 <= v <= max_count and max_count > 0 both renderers
\* colour a cell (255, 255 - I, 255 - I) where I is 255 * v / max_count
\* rounded to the nearest integer; with max_count = 0 the colour is white.
C11_RampRounded ==
    pc \in { "_get_color", "image_cell_color" } =>
        IF arg[2] = 0
        THEN ret = << 255, 255, 255 >>
        ELSE \E I \in 0..255 :
                /\ IsNearest(I, 255 * arg[1], arg[2])
                /\ ret = << 255, 255 - I, 255 - I >>

\* C11 amended: I is 255 * v / max_count rounded down, the largest integer
\* with I * max_count <= 255 * v; the rest as stated.
C11_RampRoundedDown ==
    pc \in { "_get_color", "image_cell_color" } =>
        IF arg[2] = 0
        THEN ret = << 255, 255, 255 >>
        ELSE \E I \in 0..255 :
                /\ I * arg[2] <= 255 * arg[1]
                /\ 255 * arg[1] < (I + 1) * arg[2]
                /\ ret = << 255, 255 - I, 255 - I >>

\* a cell at a quarter of the maximum: 63.75 becomes 63
C11_Witness ==
    /\ pc = "image_cell_color"
    /\ arg = << 1, 4 >>
    /\ ret = << 255, 192, 192 >>

Distance(a, b) == IF a < b THEN b - a ELSE a - b

\* the nearest to channel c of the six levels 0, 51, 102, 153, 204, 255
NearestLevel(c) ==
    CHOOSE L \in 0..5 : \A K \in 0..5 : Distance(51 * L, c) <= Distance(51 * K, c)

\* C13: with max_count > 0 the palette index of a cell of value v is
\* 16 + 36 * r_level + 6 * g_level + b_level, each level the nearest of the
\* six levels to that channel of the cell's ramp colour; the index lies in
\* 16..231, is 196 (pure red) for the maximum and 231 (white) for zero,
\* and a larger count never gets a less red index than a smaller one.
C13_PaletteIndex ==
    (pc = "_get_ascii_color" /\ arg[2] > 0) =>
        LET rgb == _get_color(arg[1], arg[2])
        IN  /\ ret = 16 + 36 * NearestLevel(rgb[1]) + 6 * NearestLevel(rgb[2])
                        + NearestLevel(rgb[3])
            /\ ret \in 16..231
            /\ arg[1] = arg[2] => ret = 196
            /\ arg[1] = 0 => ret = 231
            /\ \A w \in 0..arg[1] : _get_ascii_color(w, arg[2]) >= ret

\* half the maximum: the ramp colour (255, 128, 128) falls on level 3
C13_Witness ==
    /\ pc = "_get_ascii_color"
    /\ arg = << 6, 12 >>
    /\ ret = 217

-----------------------------------------------------------------------------
(* Properties of the renderers *)

ReadOps ==
    { "generate_heatmap_data", "generate_heatmap_image", "generate_ascii_heatmap" }

\* the index the colour cube gives to a colour
CubeIndex(rgb) ==
    16 + 36 * NearestLevel(rgb[1]) + 6 * NearestLevel(rgb[2]) + NearestLevel(rgb[3])

\* C12: render_text of a grid with no hits colours every cell with the
\* white entry of the colour cube, the index of (255, 255, 255), which is
\* also the index of a cell without hits in a grid that holds hits.
C12_AllZeroIsCubeWhite ==
    last.op = "generate_ascii_heatmap" =>
        LET self == stores[last.handle]
            data == generate_heatmap_data(self)
            cells == (0..(self.size - 1)) \X (0..(self.size - 1))
        IN  \A rc \in cells :
                data[rc[1]][rc[2]] = 0 =>
                    last.value.rows[rc[1]].cells[rc[2]]
                        = CubeIndex(<< 255, 255, 255 >>)

\* C15: raw_counts, render_raster and render_text change neither the
\* entries of the grid, nor the size, nor the backing file.
C15_ReadOnly ==
    [][ last'.op \in ReadOps => stores' = stores /\ files' = files ]_vars

\* the image of a store with a recorded hit has been rendered
C15_Witness ==
    /\ last.op = "generate_heatmap_image"
    /\ dict_total(stores[last.handle].grid) >= 1
    /\ last.value.cells[0][0] = << 255, 0, 0 >>
    /\ TheFile(last.handle).text # EmptyObjectText

\* C14: for every size N >= 2 a caller can set, render_raster gives a
\* square image with pixels, of side N * floor(1024 / N), at most 1024,
\* made of N x N cells of floor(1024 / N) pixels each.
C14_ImageSize ==
    pc = "done" =>
        /\ ret.raised = ""
        /\ ret.value.width = ret.value.height
        /\ ret.value.width = arg * (1024 \div arg)
        /\ ret.value.width >= 1
        /\ ret.value.width <= 1024
        /\ ret.value.cell_px = 1024 \div arg
        /\ ret.value.cell_px >= 1
        /\ arg * ret.value.cell_px = ret.value.width


\* the stores open on the one backing file
Bound == { h \in Handles : stores[h] # NoStore }

\* the count the backing file holds for a label, 0 while it holds none
FileCount(key) ==
    LET data == json_loads(files[CHOOSE p \in Paths : TRUE].text)
    IN  IF key \in dict_keys(data) THEN dict_get(data, key) ELSE 0

\* C16: with two stores open on one backing file, every successful
\* record_hit overwrites the file with the writer's whole in-memory grid and
\* no other step changes the file's content, so the file always equals the
\* grid of the store that wrote last (a hit recorded through the other store
\* can be missing from it); while a single store is open on the file, the
\* file holds every hit that store holds.
C16_LastWriterWins ==
    /\ [][ /\ (HitStep /\ last'.raised = "") =>
                LET writer == stores'[last'.handle]
                IN  /\ files'[writer.file_path].exists
                    /\ files'[writer.file_path].text = json_dumps(writer.grid)
           /\ ~(HitStep /\ last'.raised = "") =>
                \A p \in Paths : files'[p].text = files[p].text
       ]_vars
    /\ [](\A h \in Handles :
            (Bound = { h } /\ dict_total(stores[h].grid) > 0) =>
                /\ TheFile(h).exists
                /\ json_loads(TheFile(h).text) = stores[h].grid)

\* a hit on A1 recorded through a store opened on the empty file is absent
\* from the file after the other store wrote
C16_Witness ==
    \E h \in Handles :
        /\ Bound = Handles
        /\ hist[h].fresh
        /\ CopiesIn(<< "A", "1" >>, hist[h].hits) >= 1
        /\ TheFile(h).exists
        /\ TheFile(h).text # << >>
        /\ FileCount(<< "A", "1" >>) = 0

\* the letters and the digits of a well-formed point
LettersOf(s) == SelectSeq(s, IsLetter)
DigitsOf(s) == SelectSeq(s, IsDigit)

\* the value of a decimal digit; U+0661 is ARABIC-INDIC DIGIT ONE
DecimalDigit(c) == IF c \in UnicodeDigits THEN 1 ELSE digit_value(c)

\* the digits read as a decimal number
RECURSIVE DecimalValue(_)
DecimalValue(s) ==
    IF Len(s) = 0
    THEN 0
    ELSE 10 * DecimalValue(SubSeq(s, 1, Len(s) - 1)) + DecimalDigit(s[Len(s)])

\* C18: record_hit on a well-formed point whose letters decode to a column
\* in 1..N and whose digits, read as a decimal number, give a row in 1..N
\* succeeds and increments the cell at that column and row; it raises
\* OutOfRange only when the column or the row lies outside 1..N.
C18_DecimalRow ==
    [][ (HitStep /\ WellFormed(last'.point)) =>
          LET h == last'.handle
              N == stores[h].size
              col == LabelValue(upper(LettersOf(last'.point)))
              row == DecimalValue(DigitsOf(last'.point))
              key == _index_to_column(col - 1) \o int_to_str(row)
          IN  /\ (col \in 1..N /\ row \in 1..N) =>
                    /\ last'.raised = ""
                    /\ dict_get(stores'[h].grid, key)
                         = dict_get(stores[h].grid, key) + 1
              /\ last'.raised = "OutOfRange" =>
                    (col \notin 1..N \/ row \notin 1..N)
    ]_vars

\* C19: a record_hit call that fails, with InvalidFormat or with
\* OutOfRange, leaves every grid entry, the set of keys, the size and the
\* backing file's content as they were before the call.
C19_FailedHitChangesNothing ==
    [][ (HitStep /\ last'.raised \in { "InvalidFormat", "OutOfRange" }) =>
          LET before == stores[last'.handle]
              after == stores'[last'.handle]
          IN  /\ dict_keys(after.grid) = dict_keys(before.grid)
              /\ \A k \in dict_keys(before.grid) :
                    dict_get(after.grid, k) = dict_get(before.grid, k)
              /\ after.size = before.size
              /\ files'[before.file_path] = files[before.file_path]
    ]_vars

\* a malformed hit was refused on a store holding two recorded hits
C19_Witness ==
    /\ last.op = "input_hit"
    /\ last.raised = "InvalidFormat"
    /\ dict_total(stores[last.handle].grid) >= 2
    /\ TheFile(last.handle).text = json_dumps(stores[last.handle].grid)

\* C17: re-opening the backing files as the bot does on startup gives every
\* user who had a store a store of the same size with the same counts,
\* also when no hit was recorded since the store was constructed.
C17_RestartKeepsGrid ==
    [][ last'.op = "post_init" =>
          \A u \in Users :
              stores[u] # NoStore =>
                  /\ stores'[u] # NoStore
                  /\ stores'[u].size = stores[u].size
                  /\ stores'[u].grid = stores[u].grid
    ]_vars

\* the user has no store and no backing file
Forgotten(u) ==
    /\ stores[u] = NoStore
    /\ ~files[Append(hitakort_path, user_file_name(u))].exists

\* C20: /reset from a user who has a store deletes the user's backing file
\* and forgets the store; while the user has no store, hits and /image are
\* refused and change nothing, and only /size gives the user a store again;
\* /size M with M >= 2 then gives an all-zero M x M grid, and from then on,
\* also after a restart, the grid holds exactly the hits added since that
\* /size, none from before the reset.
C20_ResetForgets ==
    /\ [][ \A u \in Users :
             /\ (last' = [ op |-> "reset", user |-> u, args |-> << >>,
                           reply |-> "Grid Reset" ] /\ stores[u] # NoStore)
                   => /\ stores'[u] = NoStore
                      /\ ~files'[stores[u].file_path].exists
             /\ (stores[u] = NoStore /\ last'.user = u
                 /\ last'.op \in { "add_hit", "heatmap" })
                   => /\ last'.reply = "Grid Size Not Set"
                      /\ stores' = stores
                      /\ files' = files
             /\ (stores[u] = NoStore /\ stores'[u] # NoStore)
                   => /\ last'.op = "size"
                      /\ last'.user = u
                      /\ int_parses(last'.args)
                      /\ stores'[u].size = str_to_int(last'.args)
                      /\ stores'[u].size >= MinSize
                      /\ dict_keys(stores'[u].grid)
                           = GridLabels(stores'[u].size)
                      /\ dict_total(stores'[u].grid) = 0
       ]_vars
    /\ [](\A u \in Users :
            /\ stores[u] = NoStore => Forgotten(u)
            /\ stores[u] # NoStore =>
                 \A k \in dict_keys(stores[u].grid) :
                    dict_get(stores[u].grid, k) = CopiesIn(k, hist[u].hits))

\* after a restart, a user who reset a grid holding a hit on A1 and then
\* set a size again and added a hit on B1 has a grid without the hit on A1
C20_Witness ==
    /\ last.op = "post_init"
    /\ \E u \in Users :
          /\ stores[u] # NoStore
          /\ << "A", "1" >> \in hist[u].erased
          /\ dict_get(stores[u].grid, << "A", "1" >>) = 0
          /\ dict_get(stores[u].grid, << "B", "1" >>) = 1

\* the backing file of a user's store
UserFile(u) == Append(hitakort_path, user_file_name(u))

\* the step just taken handled a command or a text message from user u
UpdateFrom(u) ==
    /\ last'.user = u
    /\ last'.op \in { "size", "add_hit", "wrong_format", "heatmap", "reset" }

\* C21: every user's store is kept in the user's own file
\* users/<user_id>.json, no two users share a file, and a command or a hit
\* from user u (size, hit, image, reset) leaves the store (grid and size)
\* and the backing file of every other user as they were, whatever the
\* order in which the handlers take the users' updates.
C21_UserIsolation ==
    /\ [](\A u, v \in Users :
            /\ stores[u] # NoStore => stores[u].file_path = UserFile(u)
            /\ u # v => UserFile(u) # UserFile(v))
    /\ [][ \A u, v \in Users :
             (UpdateFrom(u) /\ v # u) =>
                 /\ stores'[v] = stores[v]
                 /\ files'[UserFile(v)] = files[UserFile(v)]
       ]_vars

\* a user has just reset a grid holding hits while the other user's grid
\* and file hold two hits
C21_Witness ==
    \E u, v \in Users :
        /\ u # v
        /\ last = [ op |-> "reset", user |-> u, args |-> << >>,
                    reply |-> "Grid Reset" ]
        /\ << "A", "1" >> \in hist[u].erased
        /\ stores[v] # NoStore
        /\ dict_get(stores[v].grid, << "A", "1" >>) = 2
        /\ files[UserFile(v)].text = json_dumps(stores[v].grid)
=============================================================================
